---- MODULE Spec2Model ----
(***************************************************************************)
(* Model of the Geph telegram giftcard bot (src/src/main.rs).              *)
(*                                                                         *)
(* Every inbound update is handled by telegram_msg_handler as its own      *)
(* task; tasks run concurrently and interleave at their await points and   *)
(* at the acquisition of the ledger lock.  The ledger is STORE, a lazily   *)
(* opened AcidJson<Store>: an in-memory BTreeSet<i64> behind a read/write  *)
(* lock, mirrored to a JSON file whenever a write guard is dropped.        *)
(***************************************************************************)
EXTENDS Integers, Sequences, FiniteSets, TLC

\* ---------------------------------------------------------------- bounds
MaxUsers == 2
MaxReqs == 2

\* ------------------------------------------------------------- constants
\* The sender whose username equals CONFIG.admin_uname.
AdminId == 0
\* update["message"]["from"]["id"] is absent or not an integer.
NoSender == -1

Users == 1..MaxUsers
Reqs == 1..MaxReqs
Senders == Users \cup {AdminId, NoSender}

ChatTypes == {"private", "group", "supergroup", "channel"}
\* Message texts: the admin command (which holds no mention of the bot), and a
\* text containing "@<bot_uname>" (which is not the admin command).
Texts == {"#RecipientCount", "hi @bot"}

\* getChatMember outcomes: the "status" field of a successful call, or a failed call.
MemberStatuses == {"member", "administrator", "creator"}
Statuses == MemberStatuses \cup {"left"}
LookupResults == Statuses \cup {"error"}

\* ---------------------------------------------------------------- values
NoText == [kind |-> "none", id |-> 0]
\* The text of the k-th code minted by the issuer.
CodeText(k) == [kind |-> "code", id |-> k]
\* The body of a non-success HTTP response (an error page).
ErrorPage == [kind |-> "errorpage", id |-> 0]

NoReply == [kind |-> "none", n |-> 0]
Reply(k) == [kind |-> k, n |-> 0]

VARIABLES
    store,      \* STORE: [st: "uninit" | "ready" | "poisoned", users: set of ids]
    disk,       \* the backing file: [kind: "missing" | "json" | "corrupt", list: seq of ids]
    wlock,      \* the request holding the ledger's write lock, 0 when free
    req,        \* per request: its update, its position and what it did
    nreq,       \* number of updates received so far
    minted,     \* number of codes the issuer has minted
    delivered,  \* per user: the code-message texts delivered by send_msg
    marked,     \* ids whose ledger mark (insert and flush) has returned
    begun,      \* ids a ledger mark has inserted in memory, flushed or not
    disk0       \* the backing file as the first start found it

vars == <<store, disk, wlock, req, nreq, minted, delivered, marked, begun, disk0>>

\* ------------------------------------------------------- the ledger file
RECURSIVE Serialize(_)
\* serde_json of a BTreeSet<i64>: the identifiers in ascending order.
Serialize(S) ==
    IF S = {} THEN <<>>
    ELSE LET m == CHOOSE x \in S : \A y \in S : x <= y
         IN <<m>> \o Serialize(S \ {m})

\* Deserialising a list into a BTreeSet collapses duplicates and forgets order.
Parse(list) == {list[i] : i \in DOMAIN list}

Missing == [kind |-> "missing", list |-> <<>>]
Corrupt == [kind |-> "corrupt", list |-> <<>>]
Json(list) == [kind |-> "json", list |-> list]

Uninit == [st |-> "uninit", users |-> {}]
Poisoned == [st |-> "poisoned", users |-> {}]
Ready(S) == [st |-> "ready", users |-> S]

\* Lazy::force(&STORE): open the file, or start empty when it is missing;
\* the unwrap panics on an unparsable file and poisons the Lazy.
Force(s, d) ==
    IF s.st # "uninit" THEN s
    ELSE IF d.kind = "missing" THEN Ready({})
    ELSE IF d.kind = "json" THEN Ready(Parse(d.list))
    ELSE Poisoned

\* ------------------------------------------------------------- requests
\* A request: its position (pc), the parts of the update its handler examines
\* (from, chat, msg), whether its sender was in the ledger when it was
\* received (known), the getChatMember answer while the handler branches on
\* it (member), the kind of the issuer's answer (resp), the handler's gc, the
\* backing file as it was when its write guard was granted (pre), the count
\* its mark is to leave: the count it found, plus one for a new sender
\* (want), the temporary file its flush wrote (tmp), and how it ended (fail, ret).
NoReq == [pc |-> "none", from |-> NoSender, chat |-> "", msg |-> "",
          known |-> FALSE, member |-> "", resp |-> "", gc |-> NoText,
          pre |-> [kind |-> "", list |-> <<>>], want |-> 0, tmp |-> <<>>,
          fail |-> "", ret |-> NoReply]

Live == {"lookup", "issue", "lock", "tmp", "rename", "congrats", "code"}

\* A request that ended: what is kept of it is who sent it and how it ended.
Ended(q, pc, fail, ret) ==
    [NoReq EXCEPT !.pc = pc, !.from = q.from, !.chat = q.chat, !.msg = q.msg,
                  !.known = q.known, !.fail = fail, !.ret = ret]

InitFiles == {Missing, Corrupt, Json(<<1>>)}

Init ==
    /\ store = Uninit
    /\ disk \in InitFiles
    /\ disk0 = disk
    /\ wlock = 0
    /\ req = [r \in Reqs |-> NoReq]
    /\ nreq = 0
    /\ minted = 0
    /\ delivered = [u \in Users |-> {}]
    /\ marked = {}
    /\ begun = {}

\* ------------------------------------------------------ pure fragments
\* Contains with the already-redeemed check left out.
ContainsNever(s, id) == FALSE

\* STORE.read().redeemed_users.contains(&sender_id)
Contains(s, id) == id \in s.users

\* STORE.read().redeemed_users.len()
Count(s) == Cardinality(s.users)

\* UserInGroupValue failing open: a failed getChatMember call counts as membership.
UserInGroupFailOpen(res) == res \in MemberStatuses \cup {"error"}

\* user_in_group: a failed call or a non-member status yields Ok(false).
UserInGroupValue(res) == res \in MemberStatuses

\* A response body: the text, bare or wrapped in whitespace (a trailing newline).
Body(padded, text) == [padded |-> padded, text |-> text]

\* response.trim(): the text without its leading and trailing whitespace.
Trim(body) == body.text

IssuerKinds == {"ok", "http_error", "net_error"}

\* Whether `client.post(..).send().await?.text().await?` yields Ok: only a
\* failure of the transfer itself is an Err; the HTTP status is not examined.
IssuerIsOk(kind) == kind # "net_error"

\* STORE.write() never granted: every writer waits for ever.
WriteLockNever == FALSE

\* WriteLockFree without the lock: writers are not serialised.
WriteLockIgnored == TRUE

\* STORE.write() is granted when no other guard is held.
WriteLockFree == wlock = 0

\* STORE.read() is granted when no write guard is held (read guards are
\* temporaries of one expression and never outlive a step).
ReadFree == wlock = 0

\* Insert applied to a copy of the set: the ledger itself gains nothing.
InsertLost(s, id) == s

\* BTreeSet::insert under the write guard.
Insert(s, id) == Ready(s.users \cup {id})

\* Replaced without the write: the flush does not reach the backing file.
NotReplaced(d, list) == d

\* TmpWritten writing in place: the backing file itself is truncated and rewritten.
WrittenInPlace(d, list) == Corrupt

\* The backing file after the flush has written `list` to its temporary
\* file: untouched, the bytes went to another file.
TmpWritten(d, list) == d

\* The backing file after the temporary file `list` has replaced it.
Replaced(d, list) == Json(list)

\* FlushFailed with the failure swallowed: the handler goes on to the sends.
FlushFailureIgnored(q) ==
    [q EXCEPT !.pre = NoReq.pre, !.want = 0, !.tmp = <<>>, !.pc = "congrats",
              !.fail = "store_write"]

\* The request after its flush failed: the write guard's drop panics.
FlushFailed(q) == [Ended(q, "panic", "store_write", NoReply) EXCEPT !.gc = q.gc]

\* What a restart does to a request: a task in flight dies with the process
\* (in the middle of its flush when it held the write guard).
Kill(q) ==
    IF q.pc \in {"tmp", "rename"}
      THEN [Ended(q, "killed", "in_flush", NoReply) EXCEPT !.pre = q.pre]
    ELSE IF q.pc \in Live THEN Ended(q, "killed", "", NoReply)
    ELSE q

\* The admin branch of line 90 never taken.
IsAdminNever(f) == FALSE

\* Line 90: sender_uname == admin_uname; the admin is the sender AdminId.
IsAdmin(f) == f = AdminId

\* The update as far as the handler examines it: without a sender id it
\* returns before reading anything else, the text is compared only for the
\* admin's private messages and for group messages, and the sender id is
\* used only in private chats.
Examined(f, c, m) ==
    IF f = NoSender THEN [NoReq EXCEPT !.from = f]
    ELSE IF c = "private"
      THEN [NoReq EXCEPT !.from = f, !.chat = c, !.msg = IF IsAdmin(f) THEN m ELSE "",
                         !.known = f \in Force(store, disk).users]
    ELSE IF c \in {"group", "supergroup"}
      THEN [NoReq EXCEPT !.chat = c, !.msg = m]
    ELSE [NoReq EXCEPT !.chat = c]

\* Lines 74-103 as a function of the update and the forced STORE: the
\* request after the handler has run to its first await or to its return.
Dispatch(f, c, m, s) ==
    LET q == Examined(f, c, m)
    IN IF f = NoSender
         THEN Ended(q, "err", "no_sender", NoReply)
       ELSE IF c = "private"
         THEN IF IsAdmin(f)
                THEN IF m = "#RecipientCount"
                       THEN IF s.st = "poisoned"
                              THEN Ended(q, "panic", "store_load", NoReply)
                              ELSE Ended(q, "done", "", [kind |-> "count", n |-> Count(s)])
                       ELSE Ended(q, "done", "", NoReply)
                ELSE IF s.st = "poisoned"
                       THEN Ended(q, "panic", "store_load", NoReply)
                     ELSE IF Contains(s, f)
                       THEN Ended(q, "done", "", Reply("already_redeemed"))
                       ELSE [q EXCEPT !.pc = "lookup"]
       ELSE IF c \in {"group", "supergroup"}
         THEN IF m = "hi @bot"
                THEN Ended(q, "done", "", Reply("private_message_me"))
                ELSE Ended(q, "done", "", NoReply)
       ELSE Ended(q, "done", "", NoReply)

\* The sends of lines 108-123 placed before the mark of line 106.
IssuedThenSent(q, kind, code) ==
    [q EXCEPT !.member = "", !.resp = kind, !.gc = code, !.pc = "congrats"]

\* Lines 104-106: create_giftcards has returned Ok(gc); the handler goes on
\* to STORE.write().
Issued(q, kind, code) ==
    [q EXCEPT !.member = "", !.resp = kind, !.gc = code, !.pc = "lock"]

\* The write guard kept alive past its statement, across the sends.
GuardKept(w, r) == w

\* Line 106: the write guard is a temporary of the statement and is dropped
\* at its end, before the next await.
Released(w, r) == IF w = r THEN 0 ELSE w

\* Whether lines 74-103 touch STORE for this update.
UsesStore(f, c, m) ==
    /\ f # NoSender
    /\ c = "private"
    /\ (IsAdmin(f) => m = "#RecipientCount")

\* --------------------------------------------------------------- actions
\* Lines 74-103: a new update arrives and its handler runs to its first
\* await (the getChatMember call) or to its return.
Handle(f, c, m) ==
    /\ nreq < MaxReqs
    /\ UsesStore(f, c, m) => ReadFree
    /\ store' = IF UsesStore(f, c, m) THEN Force(store, disk) ELSE store
    /\ req' = [req EXCEPT ![nreq + 1] = Dispatch(f, c, m, Force(store, disk))]
    /\ nreq' = nreq + 1
    /\ UNCHANGED <<disk, wlock, minted, delivered, marked, begun, disk0>>

\* Lines 57-71 and 103: getChatMember returns.
UserInGroup(r, res) ==
    /\ req[r].pc = "lookup"
    /\ req' = [req EXCEPT ![r] =
                 IF UserInGroupValue(res)
                   THEN [@ EXCEPT !.member = res, !.pc = "issue"]
                   ELSE [Ended(@, "done", "", Reply("must_join")) EXCEPT !.member = res]]
    /\ UNCHANGED <<store, disk, wlock, nreq, minted, delivered, marked, begun, disk0>>

\* Lines 104-105 and 145-167: the issuer's answer arrives.
CreateGiftcards(r, kind, padded) ==
    /\ req[r].pc = "issue"
    /\ LET text == IF kind = "ok" THEN CodeText(minted + 1) ELSE ErrorPage
           body == Body(padded, text)
       IN /\ minted' = IF kind = "ok" THEN minted + 1 ELSE minted
          /\ req' = [req EXCEPT ![r] =
                       IF IssuerIsOk(kind)
                         THEN Issued(@, kind, Trim(body))
                         ELSE [Ended(@, "err", "issuer", NoReply) EXCEPT !.resp = kind]]
    /\ UNCHANGED <<store, disk, wlock, nreq, delivered, marked, begun, disk0>>

\* Line 106: STORE.write() is granted and the sender is inserted.
WriteInsert(r) ==
    /\ req[r].pc = "lock"
    /\ WriteLockFree
    /\ store.st = "ready"
    /\ wlock' = r
    /\ store' = Insert(store, req[r].from)
    /\ begun' = begun \cup {req[r].from}
    /\ req' = [req EXCEPT ![r] =
                 [@ EXCEPT !.pre = disk, !.pc = "tmp",
                           !.want = Cardinality(store.users)
                                      + (IF req[r].from \in store.users THEN 0 ELSE 1)]]
    /\ UNCHANGED <<disk, nreq, minted, delivered, marked, disk0>>

\* Line 106, the write guard's drop: the set is serialised into a temporary file.
FlushTmp(r) ==
    /\ req[r].pc = "tmp"
    /\ req' = [req EXCEPT ![r] = [@ EXCEPT !.tmp = Serialize(store.users), !.pc = "rename"]]
    /\ disk' = TmpWritten(disk, Serialize(store.users))
    /\ UNCHANGED <<store, wlock, nreq, minted, delivered, marked, begun, disk0>>

\* Line 106, the write guard's drop: the temporary file replaces the backing
\* file, the lock is released, and the first send_msg is started.
FlushRename(r) ==
    /\ req[r].pc = "rename"
    /\ disk' = Replaced(disk, req[r].tmp)
    /\ wlock' = Released(wlock, r)
    /\ marked' = marked \cup {req[r].from}
    /\ req' = [req EXCEPT ![r] = [@ EXCEPT !.pre = NoReq.pre, !.want = 0, !.tmp = <<>>,
                                                !.pc = "congrats"]]
    /\ UNCHANGED <<store, nreq, minted, delivered, begun, disk0>>

\* Line 106, the write guard's drop: writing or replacing the file fails (disk
\* full, permission error); the drop panics, the lock is released by the
\* unwinding, and the in-memory insert stays.
FlushFail(r) ==
    /\ req[r].pc \in {"tmp", "rename"}
    /\ wlock' = Released(wlock, r)
    /\ req' = [req EXCEPT ![r] = FlushFailed(@)]
    /\ UNCHANGED <<store, disk, nreq, minted, delivered, marked, begun, disk0>>

\* Lines 108-116: the congratulation message's send returns.
SendCongrats(r, ok) ==
    /\ req[r].pc = "congrats"
    /\ req' = [req EXCEPT ![r] =
                 IF ok THEN [@ EXCEPT !.pc = "code"]
                       ELSE [Ended(@, "err", "send_congrats", NoReply)
                               EXCEPT !.resp = req[r].resp]]
    /\ UNCHANGED <<store, disk, wlock, nreq, minted, delivered, marked, begun, disk0>>

\* Lines 117-125: the code message's send returns; on success the handler
\* returns the redeem instructions.
SendCode(r, ok) ==
    /\ req[r].pc = "code"
    /\ delivered' = IF ok
                      THEN [delivered EXCEPT ![req[r].from] = @ \cup {req[r].gc}]
                      ELSE delivered
    /\ req' = [req EXCEPT ![r] =
                 IF ok THEN [Ended(@, "done", "", Reply("how_to_redeem"))
                               EXCEPT !.resp = req[r].resp, !.gc = req[r].gc]
                       ELSE [Ended(@, "err", "send_code", NoReply) EXCEPT !.resp = req[r].resp]]
    /\ UNCHANGED <<store, disk, wlock, nreq, minted, marked, begun, disk0>>

\* The process stops and is started again: every task in flight is gone, the
\* lock with them, and STORE is opened from the backing file on its next use.
Restart ==
    /\ store' = Uninit
    /\ wlock' = 0
    /\ req' = [r \in Reqs |-> Kill(req[r])]
    /\ UNCHANGED <<disk, nreq, minted, delivered, marked, begun, disk0>>

Next ==
    \/ \E f \in Senders, c \in ChatTypes, m \in Texts : Handle(f, c, m)
    \/ \E r \in Reqs, res \in LookupResults : UserInGroup(r, res)
    \/ \E r \in Reqs, k \in IssuerKinds, padded \in BOOLEAN :
          CreateGiftcards(r, k, padded)
    \/ \E r \in Reqs : WriteInsert(r)
    \/ \E r \in Reqs : FlushTmp(r)
    \/ \E r \in Reqs : FlushRename(r)
    \/ \E r \in Reqs : FlushFail(r)
    \/ \E r \in Reqs, ok \in BOOLEAN : SendCongrats(r, ok)
    \/ \E r \in Reqs, ok \in BOOLEAN : SendCode(r, ok)
    \/ Restart

Spec == Init /\ [][Next]_vars

\* The steps of request r's handler after its first await: each await
\* returns (with success or failure) and the executor resumes the task.
Step(r) ==
    \/ \E res \in LookupResults : UserInGroup(r, res)
    \/ \E k \in IssuerKinds, padded \in BOOLEAN : CreateGiftcards(r, k, padded)
    \/ WriteInsert(r)
    \/ FlushTmp(r)
    \/ FlushRename(r)
    \/ FlushFail(r)
    \/ \E ok \in BOOLEAN : SendCongrats(r, ok)
    \/ \E ok \in BOOLEAN : SendCode(r, ok)

\* Spec with every handler task that can run eventually run: an HTTP call
\* in flight returns, and a writer is granted the lock once it stays free.
FairSpec == Spec /\ \A r \in Reqs : WF_vars(Step(r))

\* ------------------------------------------------------------ the claims
\* The set isRedeemed reports: STORE's set, opened from the file if need be.
Ledger == Force(store, disk).users

OnDisk == Parse(disk.list)

\* Request r got a code from the issuer and had it sent to its sender.
Redeemed(r) ==
    /\ req[r].ret.kind = "how_to_redeem"
    /\ req[r].gc.kind = "code"

\* Request r is the only request its sender has made.
OnlyRequestOf(r) ==
    \A o \in Reqs \ {r} : req[o].pc = "none" \/ req[o].from # req[r].from

\* C1: for every user, at most one request of that user obtains a code from
\* the issuer and has it sent to the user.
C1_OneRedemptionPerUser ==
    \A u \in Users :
        Cardinality({r \in Reqs : req[r].from = u /\ Redeemed(r)}) <= 1

\* C2: a user id is inserted only by a request whose issuer call succeeded,
\* and a request whose issuer call failed leaves its sender out of the ledger.
C2_InsertOnlyAfterIssuance ==
    \A r \in Reqs :
        /\ req[r].pc \in {"tmp", "rename"} => req[r].resp = "ok"
        /\ (req[r].resp \in {"http_error", "net_error"} /\ OnlyRequestOf(r))
              => req[r].from \notin Ledger

\* C3: when the issuer call fails or a send fails in the middle of a request,
\* the user has received no code and is not in the ledger afterwards (stated
\* for a user with no other request, and for a failed transfer to the issuer).
C3_FailureLeavesNoMark ==
    \A r \in Reqs :
        (req[r].fail \in {"issuer", "send_congrats", "send_code"} /\ OnlyRequestOf(r))
           => /\ delivered[req[r].from] = {}
              /\ req[r].from \notin Ledger

\* C4: a request whose issuer response was a non-success HTTP response or a
\* network failure sends no code text and does not add its sender to the ledger.
C4_NonSuccessIsError ==
    \A r \in Reqs :
        (req[r].resp \in {"http_error", "net_error"} /\ req[r].pc \in {"done", "err"}
            /\ OnlyRequestOf(r))
           => /\ req[r].ret.kind # "how_to_redeem"
              /\ delivered[req[r].from] = {}
              /\ req[r].from \notin Ledger

\* C5: an identifier that isRedeemed reports (no write being in progress) is
\* still in the ledger after every step, restarts included.
C5_LedgerMonotonic ==
    [][wlock = 0 => Ledger \subseteq Ledger']_vars

\* C6: a private message of a non-admin sender who was in the ledger when it
\* was received has ended with the already-redeemed notice and nothing else:
\* no membership lookup, no issuer call, no ledger insert, no send.
C6_AlreadyRedeemedStops ==
    \A r \in Reqs :
        (req[r].chat = "private" /\ req[r].from \in Users /\ req[r].known)
           => /\ req[r].pc = "done"
              /\ req[r].ret = Reply("already_redeemed")
              /\ req[r].member = "" /\ req[r].resp = "" /\ req[r].gc = NoText
              /\ req[r].tmp = <<>> /\ req[r].fail = ""

\* C6 witness: a request answered with the notice for a user some earlier
\* request of this run had marked.
C6_Witness ==
    \E r \in Reqs :
        /\ req[r].ret = Reply("already_redeemed")
        /\ req[r].from \in marked

\* C7: a request whose membership lookup yields a non-member status or fails
\* ends with the must-join notice, without an issuer call and without a
\* ledger insert.
C7_FailClosedGate ==
    \A r \in Reqs :
        req[r].member \notin MemberStatuses \cup {""}
           => /\ req[r].pc = "done"
              /\ req[r].ret = Reply("must_join")
              /\ req[r].resp = ""
              /\ req[r].gc = NoText
              /\ (OnlyRequestOf(r) => req[r].from \notin Ledger)

\* C7 witness: one request refused on a failed lookup, one on a non-member status.
C7_Witness ==
    \E r, o \in Reqs :
        /\ req[r].member = "error" /\ req[r].ret = Reply("must_join")
        /\ req[o].member = "left" /\ req[o].ret = Reply("must_join")

C12_RollbackOnFailedWrite ==
    \A r \in Reqs :
        (req[r].fail = "store_write" /\ OnlyRequestOf(r))
           => req[r].from \notin Ledger

\* C13: a mark leaves the count at the count it found plus one for a sender
\* not yet in the ledger and unchanged for one already in it; when every
\* mark begun has returned, the count is the number of identifiers the file
\* first held and those marked since; and before any mark the count reported
\* to the admin is the number of identifiers the file first held.
C13_Count ==
    /\ \A r \in Reqs : req[r].pc \in {"tmp", "rename"} => Count(store) = req[r].want
    /\ (store.st = "ready" /\ wlock = 0 /\ begun = marked)
          => Count(store) = Cardinality(Parse(disk0.list) \cup marked)
    /\ \A r \in Reqs :
          req[r].ret.kind = "count"
             => /\ begun = {} => req[r].ret.n = Cardinality(Parse(disk0.list))
                /\ req[r].ret.n <= Cardinality(Parse(disk0.list) \cup begun)

\* C13 witness: the file first held one identifier, another was marked, and
\* the admin is told a count of two.
C13_Witness ==
    \E r \in Reqs :
        /\ req[r].ret = [kind |-> "count", n |-> 2]
        /\ Cardinality(Parse(disk0.list)) = 1
        /\ Cardinality(marked \ Parse(disk0.list)) = 1

\* C14: with the backing file missing the ledger starts empty and no
\* request fails on loading it; with the backing file unparsable the process
\* answers no request, and never runs with a ledger in place of that file.
C14_StartupLoad ==
    /\ disk0.kind = "missing"
          => /\ store.st # "poisoned"
             /\ \A r \in Reqs : req[r].fail # "store_load"
             /\ (store.st = "ready" /\ begun = {}) => store.users = {}
    /\ disk.kind = "corrupt"
          => /\ store.st # "ready"
             /\ \A r \in Reqs : req[r].ret = NoReply

\* C15: within a request the issuer call returns, then the sender is marked,
\* then the messages are sent: a request has no issuer answer before the
\* issuer call returns and has one from then on, a request that is sending
\* has its sender in the ledger, and every user who was sent a code message
\* was marked before.
C15_StepOrder ==
    /\ \A r \in Reqs :
          /\ req[r].pc \in {"lookup", "issue"}
                => (req[r].gc = NoText /\ wlock # r)
          /\ req[r].pc \in {"lock", "tmp", "rename", "congrats", "code"}
                => (req[r].gc # NoText /\ req[r].resp \in IssuerKinds)
          /\ req[r].pc \in {"congrats", "code"}
                => (req[r].from \in Ledger /\ req[r].from \in marked)
    /\ \A u \in Users : delivered[u] # {} => u \in marked

\* C15 witness: a code message was sent to a user who is in the ledger.
C15_Witness ==
    \E r \in Reqs :
        /\ req[r].pc = "done"
        /\ req[r].ret = Reply("how_to_redeem")
        /\ req[r].gc \in delivered[req[r].from]
        /\ req[r].from \in Ledger

\* C16: no request holds the ledger lock while it waits for getChatMember,
\* the issuer or a send; the lock is held only by a request inside its
\* insert-and-flush, and that request can always take its next step, so
\* the lock is always released again.
C16_NoLockAcrossCalls ==
    /\ \A r \in Reqs :
          req[r].pc \in {"lookup", "issue", "congrats", "code"} => wlock # r
    /\ \A r \in Reqs : (wlock = r) <=> (req[r].pc \in {"tmp", "rename"})
    /\ wlock \in Reqs => ENABLED (FlushTmp(wlock) \/ FlushRename(wlock))

\* C16 witness: one request waits for a send after its mark while another
\* holds the lock for its own mark.
C16_Witness ==
    \E r1, r2 \in Reqs :
        /\ req[r1].pc \in {"congrats", "code"}
        /\ wlock = r2
        /\ r1 # r2

\* C17: a private message from the admin (whatever its text), a group or
\* supergroup message (with or without a mention of the bot) and a message
\* of any other chat type is over when its handler returns, with no
\* getChatMember call, no issuer call and no mark; and while no private
\* message from a non-admin sender was handled, no code is issued or sent
\* and the ledger and its file stay as they were.
C17_OnlyPrivateNonAdminRedeems ==
    /\ \A r \in Reqs :
          (\/ req[r].chat = "private" /\ req[r].from = AdminId
           \/ req[r].chat \in ChatTypes \ {"private"})
             => /\ req[r].pc \in {"done", "panic"}
                /\ req[r].ret.kind \in {"none", "count", "private_message_me"}
                /\ req[r].fail \in {"", "store_load"}
                /\ req[r].member = "" /\ req[r].resp = "" /\ req[r].gc = NoText
                /\ req[r].tmp = <<>> /\ wlock # r
    /\ (\A r \in Reqs : ~(req[r].chat = "private" /\ req[r].from \in Users))
          => /\ minted = 0 /\ begun = {} /\ marked = {}
             /\ \A u \in Users : delivered[u] = {}
             /\ disk = disk0
             /\ Ledger = Parse(disk0.list)

\* C17 witness: a private message from the admin that is not the count
\* command and a group message that mentions the bot were handled, and
\* nothing was issued or marked.
C17_Witness ==
    \E r1, r2 \in Reqs :
        /\ req[r1].pc = "done" /\ req[r1].chat = "private"
        /\ req[r1].from = AdminId /\ req[r1].msg = "hi @bot"
        /\ req[r2].chat = "group" /\ req[r2].ret = Reply("private_message_me")
        /\ minted = 0 /\ begun = {}

\* Request r completed: the redeem instructions were returned, the code the
\* issuer minted was sent to the sender, and the sender is in the ledger.
Completed(r) ==
    /\ req[r].pc = "done"
    /\ req[r].ret = Reply("how_to_redeem")
    /\ req[r].resp = "ok"
    /\ req[r].gc.kind = "code"
    /\ req[r].gc \in delivered[req[r].from]
    /\ req[r].from \in Ledger

\* One of request r's steps did not succeed: the sender was not reported a
\* member, the issuer call, the ledger write or a send failed, the issuer
\* answered with a non-success status, or the process stopped.
NotAllSucceeded(r) ==
    \/ req[r].pc \in {"err", "panic", "killed"}
    \/ req[r].ret = Reply("must_join")
    \/ req[r].pc = "done" /\ req[r].resp = "http_error"

\* C18: a private message of a non-admin sender who is not in the ledger (the
\* request is waiting for getChatMember) leads to the request completed with
\* the sender in the ledger, the issued code sent and the redeem
\* instructions returned, unless one of its steps does not succeed.
C18_Progress ==
    \A r \in Reqs :
        (req[r].pc = "lookup") ~> (Completed(r) \/ NotAllSucceeded(r))

\* C18 witness: a request whose steps all succeeded has completed.
C18_Witness == \E r \in Reqs : Completed(r) /\ req[r].from \in marked

====
